---- MODULE Spec2Model ----
(***************************************************************************)
(* Location resolution of the hotlines directory (src/src/app/page.tsx).   *)
(*                                                                         *)
(* The model follows the HomeContent component: the fetchData effect that  *)
(* loads the two datasets, the detect-location effect with its resolver    *)
(* chain getLocation (geolocation -> reverse geocode -> hierarchy match -> *)
(* persisted location -> dataset default), and the component state the     *)
(* chain writes (filterOptions, isDetectingLocation, locationError) plus   *)
(* the localStorage key 'lastSavedLocation'.                               *)
(*                                                                         *)
(* Strings are sequences of one-character strings, so that toLowerCase,    *)
(* trim and the `${city}|${province}` template are computed character by   *)
(* character.  A value kept in localStorage is a string; it is represented *)
(* by its JSON syntax tree when it is JSON text and by its characters when *)
(* it is not (StoredText gives the characters back).                       *)
(*                                                                         *)
(* Environment assumptions: localStorage.getItem/setItem do not throw, and *)
(* names in the metadata dataset are non-blank strings.  Arrays of the     *)
(* metadata dataset may be empty.                                          *)
(***************************************************************************)
EXTENDS Integers, Sequences, FiniteSets, TLC

VARIABLES
    metadata,             \* useState<IMetadataResponse | null>(), undefined until loaded
    hotlines,             \* useState<IHotlinesResponse | null>(), undefined until loaded
    isDetectingLocation,  \* useState(true)
    locationError,        \* useState<string | null>(null)
    filterOptions,        \* useState({region, province, city, category})
    localStorage,         \* the string stored under 'lastSavedLocation', or absent
    fetchPc,              \* position of fetchData: "metadata", "hotlines", "done", "failed"
    pc,                   \* position of getLocation: "idle", "coords", "fetch", "json",
                          \*   "done" (returned), "rejected" (threw out of its catch block)
    renderError,          \* TRUE when a state updater threw while React rendered
    log                   \* history of the resolver run (what was requested, read, decided);
                          \*   after a user action, the history of that action

vars == <<metadata, hotlines, isDetectingLocation, locationError, filterOptions,
          localStorage, fetchPc, pc, renderError, log>>

-----------------------------------------------------------------------------
(* Bounds *)

\* Rows (region, province, city) a metadata dataset is assembled from.
MaxRows == 2

\* Hotlines of a hotline dataset the filter is applied to.
MaxHotlines == 3

-----------------------------------------------------------------------------
(* Strings *)

EmptyStr == <<>>

UpperToLower == [A |-> "a", C |-> "c", M |-> "m", N |-> "n", P |-> "p", Q |-> "q", V |-> "v"]

LowerChar(c) == IF c \in DOMAIN UpperToLower THEN UpperToLower[c] ELSE c

toLowerCase(str) == [i \in 1..Len(str) |-> LowerChar(str[i])]

IsSpace(c) == c = " "

RECURSIVE trimStart(_)
trimStart(str) ==
    IF str # <<>> /\ IsSpace(Head(str)) THEN trimStart(Tail(str)) ELSE str

RECURSIVE trimEnd(_)
trimEnd(str) ==
    IF str # <<>> /\ IsSpace(str[Len(str)])
    THEN trimEnd(SubSeq(str, 1, Len(str) - 1))
    ELSE str

trim(str) == trimEnd(trimStart(str))

\* const normalizeString = (str: string): string => str.toLowerCase().trim();
normalizeString(str) == trim(toLowerCase(str))

-----------------------------------------------------------------------------
(* JavaScript values that may be undefined *)

Undefined == [t |-> "undefined", s |-> <<>>]
JsString(str) == [t |-> "string", s |-> str]

\* String(v) as a template literal `${v}` renders it.
TemplateText(v) ==
    IF v.t = "undefined" THEN <<"u", "n", "d", "e", "f", "i", "n", "e", "d">> ELSE v.s

\* v || ''
OrEmpty(v) == IF v.t = "string" /\ v.s # <<>> THEN v.s ELSE EmptyStr

-----------------------------------------------------------------------------
(* The string kept under 'lastSavedLocation' and JSON *)

\* A string that is not JSON text (a legacy bare city name, a blank string, ...).
StoredRaw(chars) ==
    [kind |-> "raw", chars |-> chars,
     region |-> Undefined, province |-> Undefined, city |-> Undefined]

\* The JSON text of an object; a field that is Undefined is missing from it.
StoredObject(region, province, city) ==
    [kind |-> "object", chars |-> <<>>,
     region |-> region, province |-> province, city |-> city]

\* The JSON texts 5, true, null and "<chars>".
StoredNumber == [StoredRaw(<<"5">>) EXCEPT !.kind = "number"]
StoredTrue == [StoredRaw(<<"t", "r", "u", "e">>) EXCEPT !.kind = "true"]
StoredNull == [StoredRaw(<<"n", "u", "l", "l">>) EXCEPT !.kind = "null"]
StoredQuoted(chars) == [StoredRaw(chars) EXCEPT !.kind = "quoted"]

\* localStorage.getItem returns null: nothing is stored under the key.
Absent == [StoredRaw(<<>>) EXCEPT !.kind = "absent"]

Quote(str) == <<"\"">> \o str \o <<"\"">>

ObjectField(name, v, first) ==
    IF v.t = "undefined" THEN <<>>
    ELSE (IF first THEN <<>> ELSE <<",">>) \o Quote(name) \o <<":">> \o Quote(v.s)

\* The characters of the stored string, as getItem returns them.
StoredText(stored) ==
    CASE stored.kind = "object" ->
            <<"{">>
            \o ObjectField(<<"r", "e", "g", "i", "o", "n">>, stored.region, TRUE)
            \o ObjectField(<<"p", "r", "o", "v", "i", "n", "c", "e">>, stored.province,
                           stored.region.t = "undefined")
            \o ObjectField(<<"c", "i", "t", "y">>, stored.city,
                           stored.region.t = "undefined" /\ stored.province.t = "undefined")
            \o <<"}">>
      [] stored.kind = "quoted" -> Quote(stored.chars)
      [] OTHER -> stored.chars

\* if (stored): null and '' are falsy.
Truthy(stored) == stored.kind # "absent" /\ StoredText(stored) # <<>>

\* JSON.stringify(location) of a {region, province, city} object of strings.
JSONstringify(location) ==
    StoredObject(JsString(location.region), JsString(location.province),
                 JsString(location.city))

\* JSON.parse(stored): the parsed value, or type "SyntaxError" when it throws.
JSONparse(stored) ==
    [type |-> CASE stored.kind = "object" -> "object"
                [] stored.kind = "number" -> "number"
                [] stored.kind = "true" -> "boolean"
                [] stored.kind = "null" -> "null"
                [] stored.kind = "quoted" -> "string"
                [] OTHER -> "SyntaxError",
     region |-> stored.region, province |-> stored.province, city |-> stored.city]

\* value.region / value.province / value.city: a primitive has no such property;
\* reading a property of null throws a TypeError (see CatchBranch).
Property(value, field) ==
    IF value.type = "object" THEN value[field] ELSE Undefined

-----------------------------------------------------------------------------
(* Input domains *)

RegionNames == {<<"N">>, <<"v", " ">>}
ProvinceNames == {<<"P">>, <<" ", "q">>}
CityNames == {<<"M", " ">>, <<"c">>}

\* A row names a region, optionally one of its provinces (<<>>: none) and
\* optionally one of that province's cities (<<>>: none).
Rows ==
    {r \in [region : RegionNames,
            province : ProvinceNames \cup {<<>>},
            city : CityNames \cup {<<>>}] : r.province = <<>> => r.city = <<>>}

NewProvince(row) ==
    [province |-> row.province,
     cities |-> IF row.city = <<>> THEN <<>> ELSE <<row.city>>]

NewRegion(row) ==
    [name |-> row.region,
     provinces |-> IF row.province = <<>> THEN <<>> ELSE <<NewProvince(row)>>]

AddToProvinces(provinces, row) ==
    IF row.province = <<>> THEN provinces
    ELSE IF provinces # <<>> /\ provinces[Len(provinces)].province = row.province
    THEN [provinces EXCEPT ![Len(provinces)].cities =
              IF row.city = <<>> THEN @ ELSE Append(@, row.city)]
    ELSE Append(provinces, NewProvince(row))

AddRow(regions, row) ==
    IF regions # <<>> /\ regions[Len(regions)].name = row.region
    THEN [regions EXCEPT ![Len(regions)].provinces = AddToProvinces(@, row)]
    ELSE Append(regions, NewRegion(row))

RECURSIVE Nest(_)
Nest(rows) ==
    IF rows = <<>> THEN <<>>
    ELSE AddRow(Nest(SubSeq(rows, 1, Len(rows) - 1)), rows[Len(rows)])

\* The metadata datasets /data/metadata.json may hold (IMetadataResponse).
MetadataDatasets ==
    {[metadata |-> [regions |-> Nest(rows)]] :
        rows \in UNION {[1..n -> Rows] : n \in 0..MaxRows}}

\* The hotlines dataset /data/hotlines.json holds (IHotlinesResponse).
HotlineDatasets ==
    {[hotlines |-> <<>>],
     [hotlines |-> <<[hotlineName |-> <<"a">>, category |-> "police_hotlines",
                      city |-> <<"M", " ">>, province |-> <<"P">>,
                      regionName |-> <<"N">>]>>]}

\* data.city of a reverse-geocode body: a name, or undefined when the body has none.
GeocodeCities ==
    {JsString(<<"m">>), JsString(<<" ", "C", " ">>), JsString(<<"x">>), Undefined}

\* What 'lastSavedLocation' may hold when the page opens: nothing, a triple written
\* by updateLocation in an earlier session, a legacy bare city, or any other string.
InitialStores ==
    {Absent,
     StoredRaw(<<>>), StoredRaw(<<" ">>), StoredRaw(<<"C", " ">>),
     JSONstringify([region |-> <<"n">>, province |-> <<"p">>, city |-> <<"m", " ", "|", "p">>]),
     JSONstringify([region |-> <<"v">>, province |-> <<>>, city |-> <<>>]),
     JSONstringify([region |-> <<>>, province |-> <<>>, city |-> <<>>]),
     StoredObject(Undefined, Undefined, JsString(<<"c">>)),
     StoredObject(Undefined, Undefined, Undefined),
     StoredNumber, StoredTrue, StoredNull, StoredQuoted(<<"c">>)}

NotLoaded == [tag |-> "undefined"]
NoError == "null"

-----------------------------------------------------------------------------
(* Helpers of the detect-location effect (closures over metadata) *)

regions == metadata.metadata.regions

\* metadata.metadata.regions[0].name throws a TypeError when there is no first
\* region, and regions[0].provinces[0].province when there is no first province.
getDefaultLocationThrows ==
    regions = <<>> \/ regions[1].provinces = <<>>

\* Mutant of getDefaultLocation: the default names a region and a province only.
getDefaultLocation_NoCity ==
    [region |-> normalizeString(regions[1].name),
     province |-> normalizeString(regions[1].provinces[1].province),
     city |-> <<>>]

\* getDefaultLocation(): first region -> first province -> first city.  cities[0]
\* of an empty array is undefined and is rendered by the template literal.
getDefaultLocation ==
    LET defaultRegion == regions[1].name
        defaultProvince == regions[1].provinces[1].province
        cities == regions[1].provinces[1].cities
        defaultCity == IF cities = <<>> THEN Undefined ELSE JsString(cities[1])
    IN [region |-> normalizeString(defaultRegion),
        province |-> normalizeString(defaultProvince),
        city |-> normalizeString(TemplateText(defaultCity) \o <<"|">> \o defaultProvince)]

\* province.cities.find(c => normalizeString(c) === normalizedCity): the index of
\* the first such city, 0 when find returns undefined.
RECURSIVE find(_, _, _)
find(cities, normalizedCity, k) ==
    IF k > Len(cities) THEN 0
    ELSE IF normalizeString(cities[k]) = normalizedCity THEN k
    ELSE find(cities, normalizedCity, k + 1)

NoMatch == [found |-> FALSE, region |-> <<>>, province |-> <<>>, city |-> <<>>]

\* for (const province of region.provinces) { ... if (cityMatch) return {...} }
RECURSIVE forProvinces(_, _, _)
forProvinces(region, j, normalizedCity) ==
    IF j > Len(region.provinces) THEN NoMatch
    ELSE LET province == region.provinces[j]
             k == find(province.cities, normalizedCity, 1)
         IN IF k # 0 /\ province.cities[k] # <<>>
            THEN [found |-> TRUE,
                  region |-> normalizeString(region.name),
                  province |-> normalizeString(province.province),
                  city |-> normalizeString(province.cities[k] \o <<"|">> \o province.province)]
            ELSE forProvinces(region, j + 1, normalizedCity)

\* for (const region of metadata.metadata.regions) { ... } return null
RECURSIVE forRegions(_, _)
forRegions(i, normalizedCity) ==
    IF i > Len(regions) THEN NoMatch
    ELSE LET m == forProvinces(regions[i], 1, normalizedCity)
         IN IF m.found THEN m ELSE forRegions(i + 1, normalizedCity)

\* const cityKey = normalizeString(`${city}|${province.province}`)
cityKey(city, province) == normalizeString(city \o <<"|">> \o province)

\* normalizeString(cityName) throws a TypeError when cityName is not a string.
findLocationInMetadataThrows(cityName) == cityName.t # "string"

\* Mutant of findLocationInMetadata: the returned name is compared as it is.
findLocationInMetadata_Exact(cityName) == forRegions(1, cityName.s)

\* findLocationInMetadata(cityName): the first match in dataset order, or null.
findLocationInMetadata(cityName) == forRegions(1, normalizeString(cityName.s))

Location(l) == [region |-> l.region, province |-> l.province, city |-> l.city]

-----------------------------------------------------------------------------
(* State changes shared by the handlers *)

\* updateLocation(location): setFilterOptions(prev => ({...prev, ...location}));
\* localStorage.setItem('lastSavedLocation', JSON.stringify(location)).
updateLocation(location) ==
    /\ filterOptions' = [filterOptions EXCEPT !.region = location.region,
                                              !.province = location.province,
                                              !.city = location.city]
    /\ localStorage' = JSONstringify(location)

\* Mutant of legacyCity: the stored string is used as it is.
legacyCity_Raw(stored) == StoredText(stored)

\* The legacy branch's city: normalizeString(stored).
legacyCity(stored) == normalizeString(StoredText(stored))

\* Mutant of CatchBranch: a stored value is migrated, i.e. read as a legacy city
\* and written back in the structured form.
CatchBranch_Migrates(lg) ==
    LET stored == localStorage
        lg1 == [lg EXCEPT !.storeReads = @ + 1, !.stored = stored]
    IN IF Truthy(stored)
       THEN /\ filterOptions' = [filterOptions EXCEPT !.city = legacyCity(stored)]
            /\ localStorage' = JSONstringify([region |-> <<>>, province |-> <<>>,
                                              city |-> legacyCity(stored)])
            /\ isDetectingLocation' = FALSE
            /\ pc' = "done"
            /\ log' = [lg1 EXCEPT !.resolvedBy = "legacy", !.flips = @ + 1,
                                  !.storeWrites = @ + 1]
            /\ UNCHANGED renderError
       ELSE IF getDefaultLocationThrows
            THEN /\ pc' = "rejected"
                 /\ log' = lg1
                 /\ UNCHANGED <<filterOptions, isDetectingLocation, localStorage, renderError>>
            ELSE /\ updateLocation(getDefaultLocation)
                 /\ isDetectingLocation' = FALSE
                 /\ pc' = "done"
                 /\ log' = [lg1 EXCEPT !.resolvedBy = "default", !.flips = @ + 1,
                                       !.storeWrites = @ + 1]
                 /\ UNCHANGED renderError

\* The catch block of getLocation, entered with the history lg of the try block.
\* The updater passed to setFilterOptions reads locationData.region when React
\* runs it, outside the inner try: for locationData = null it throws a TypeError
\* during rendering, and the batch (with setIsDetectingLocation(false)) is lost.
CatchBranch(lg) ==
    LET stored == localStorage
        lg1 == [lg EXCEPT !.storeReads = @ + 1, !.stored = stored]
    IN IF Truthy(stored)
       THEN LET locationData == JSONparse(stored) IN
            IF locationData.type = "SyntaxError"
            THEN /\ filterOptions' =
                        [filterOptions EXCEPT !.city = legacyCity(stored)]
                 /\ isDetectingLocation' = FALSE
                 /\ pc' = "done"
                 /\ log' = [lg1 EXCEPT !.resolvedBy = "legacy", !.flips = @ + 1]
                 /\ UNCHANGED <<localStorage, renderError>>
            ELSE IF locationData.type = "null"
            THEN /\ renderError' = TRUE
                 /\ pc' = "done"
                 /\ log' = [lg1 EXCEPT !.flips = @ + 1]
                 /\ UNCHANGED <<filterOptions, isDetectingLocation, localStorage>>
            ELSE /\ filterOptions' =
                        [filterOptions EXCEPT
                            !.region = OrEmpty(Property(locationData, "region")),
                            !.province = OrEmpty(Property(locationData, "province")),
                            !.city = OrEmpty(Property(locationData, "city"))]
                 /\ isDetectingLocation' = FALSE
                 /\ pc' = "done"
                 /\ log' = [lg1 EXCEPT !.resolvedBy = "persisted", !.flips = @ + 1]
                 /\ UNCHANGED <<localStorage, renderError>>
       ELSE IF getDefaultLocationThrows
            THEN /\ pc' = "rejected"
                 /\ log' = lg1
                 /\ UNCHANGED <<filterOptions, isDetectingLocation, localStorage, renderError>>
            ELSE /\ updateLocation(getDefaultLocation)
                 /\ isDetectingLocation' = FALSE
                 /\ pc' = "done"
                 /\ log' = [lg1 EXCEPT !.resolvedBy = "default", !.flips = @ + 1,
                                       !.storeWrites = @ + 1]
                 /\ UNCHANGED renderError

\* The try block of getLocation from `const data = await response.json()` on,
\* for a body whose city property is cityName.
ApplyGeocode(cityName, lg) ==
    LET lg1 == [lg EXCEPT !.matchAttempts = @ + 1] IN
    IF findLocationInMetadataThrows(cityName) THEN CatchBranch(lg1)
    ELSE LET matchedLocation == findLocationInMetadata(cityName) IN
         IF matchedLocation.found
         THEN /\ updateLocation(Location(matchedLocation))
              /\ isDetectingLocation' = FALSE
              /\ pc' = "done"
              /\ log' = [lg1 EXCEPT !.resolvedBy = "match", !.flips = @ + 1,
                                    !.storeWrites = @ + 1]
              /\ UNCHANGED renderError
         ELSE IF getDefaultLocationThrows THEN CatchBranch(lg1)
         ELSE /\ updateLocation(getDefaultLocation)
              /\ isDetectingLocation' = FALSE
              /\ pc' = "done"
              /\ log' = [lg1 EXCEPT !.resolvedBy = "default", !.flips = @ + 1,
                                    !.storeWrites = @ + 1]
              /\ UNCHANGED renderError

-----------------------------------------------------------------------------
(* Initial state: the component as first rendered *)

NoBody == [t |-> "none", s |-> <<>>]
InvalidBody == [t |-> "invalid", s |-> <<>>]

InitialLog ==
    [geoRequests |-> 0,     \* calls of navigator.geolocation.getCurrentPosition
     fetchRequests |-> 0,   \* calls of fetch('/api/reverse-geocode...')
     matchAttempts |-> 0,   \* calls of findLocationInMetadata
     storeReads |-> 0,      \* calls of localStorage.getItem
     storeWrites |-> 0,     \* calls of localStorage.setItem
     flips |-> 0,           \* calls of setIsDetectingLocation(false)
     geo |-> "none",        \* outcome of the geolocation stage
     fetch |-> "none",      \* outcome of the reverse-geocode call
     city |-> NoBody,       \* data.city of the reverse-geocode body (InvalidBody: not JSON)
     stored |-> Absent,     \* what getItem returned
     resolvedBy |-> "none", \* the stage that produced the location
     action |-> "none",     \* the last user action (see UserLog)
     argument |-> <<>>]     \* the key that action's handler was called with

Init ==
    /\ metadata = NotLoaded
    /\ hotlines = NotLoaded
    /\ isDetectingLocation = TRUE
    /\ locationError = NoError
    /\ filterOptions = [region |-> <<>>, province |-> <<>>, city |-> <<>>,
                        category |-> "All Hotlines"]
    /\ localStorage \in InitialStores
    /\ fetchPc = "metadata"
    /\ pc = "idle"
    /\ renderError = FALSE
    /\ log = InitialLog

-----------------------------------------------------------------------------
(* fetchData effect *)

\* const metadata = await metadataRes.json(); setMetadata(metadata);
\* then fetch('/data/hotlines.json') is issued.
FetchMetadataResolved ==
    /\ fetchPc = "metadata"
    /\ \E dataset \in MetadataDatasets : metadata' = dataset
    /\ fetchPc' = "hotlines"
    /\ UNCHANGED <<hotlines, isDetectingLocation, locationError, filterOptions,
                   localStorage, pc, renderError, log>>

\* fetch or json() rejects: catch (error) { console.error(...) }, nothing is set.
FetchMetadataFailed ==
    /\ fetchPc = "metadata"
    /\ fetchPc' = "failed"
    /\ UNCHANGED <<metadata, hotlines, isDetectingLocation, locationError,
                   filterOptions, localStorage, pc, renderError, log>>

\* const hotlines = await hotlinesRes.json(); setHotlines(hotlines);
FetchHotlinesResolved ==
    /\ fetchPc = "hotlines"
    /\ \E dataset \in HotlineDatasets : hotlines' = dataset
    /\ fetchPc' = "done"
    /\ UNCHANGED <<metadata, isDetectingLocation, locationError, filterOptions,
                   localStorage, pc, renderError, log>>

FetchHotlinesFailed ==
    /\ fetchPc = "hotlines"
    /\ fetchPc' = "failed"
    /\ UNCHANGED <<metadata, hotlines, isDetectingLocation, locationError,
                   filterOptions, localStorage, pc, renderError, log>>

-----------------------------------------------------------------------------
(* detect-location effect: getLocation *)

UnsupportedMessage == "Your browser does not support location detection"

GeolocationCodes == {"PERMISSION_DENIED", "POSITION_UNAVAILABLE", "TIMEOUT"}

errorMessage(code) ==
    CASE code = "PERMISSION_DENIED" ->
            "Location access was denied. Enable location permissions to show hotlines for your current location."
      [] code = "POSITION_UNAVAILABLE" -> "Location information is unavailable."
      [] code = "TIMEOUT" -> "Location request timed out."
      [] OTHER -> "Could not detect your location"

\* Mutant of DetectLocation: the effect does not return while metadata is missing.
DetectLocation_Ungated ==
    /\ pc = "idle"
    /\ pc' = "coords"
    /\ log' = [log EXCEPT !.geoRequests = @ + 1]
    /\ UNCHANGED <<metadata, hotlines, isDetectingLocation, locationError, filterOptions,
                   localStorage, fetchPc, renderError>>

\* Mutant of DetectLocation: the reverse-geocode call is issued together with
\* the geolocation request.
DetectLocation_Racing ==
    /\ metadata # NotLoaded
    /\ pc = "idle"
    /\ pc' = "coords"
    /\ log' = [log EXCEPT !.geoRequests = @ + 1, !.fetchRequests = @ + 1]
    /\ UNCHANGED <<metadata, hotlines, isDetectingLocation, locationError, filterOptions,
                   localStorage, fetchPc, renderError>>

\* The effect runs once metadata is set (if (!metadata) return) and calls
\* getLocation, which calls getCoords.  Without navigator.geolocation getCoords
\* sets the error and rejects at once, and the catch block runs.
DetectLocation ==
    /\ metadata # NotLoaded
    /\ pc = "idle"
    /\ \E supported \in BOOLEAN :
          IF supported
          THEN /\ pc' = "coords"
               /\ log' = [log EXCEPT !.geoRequests = @ + 1]
               /\ UNCHANGED <<isDetectingLocation, locationError, filterOptions,
                              localStorage, renderError>>
          ELSE /\ locationError' = UnsupportedMessage
               /\ CatchBranch([log EXCEPT !.geo = "unsupported"])
    /\ UNCHANGED <<metadata, hotlines, fetchPc>>

\* getCurrentPosition calls resolve: the coordinates are read and the
\* reverse-geocode request is issued.
GeolocationSuccess ==
    /\ pc = "coords"
    /\ pc' = "fetch"
    /\ log' = [log EXCEPT !.geo = "ok", !.fetchRequests = @ + 1]
    /\ UNCHANGED <<metadata, hotlines, isDetectingLocation, locationError,
                   filterOptions, localStorage, fetchPc, renderError>>

\* Mutant of GeolocationError: the request is issued again instead of falling back.
GeolocationError_Retry ==
    /\ pc = "coords"
    /\ log.geoRequests < 3
    /\ \E code \in GeolocationCodes :
          /\ locationError' = errorMessage(code)
          /\ log' = [log EXCEPT !.geo = code, !.geoRequests = @ + 1]
    /\ UNCHANGED <<metadata, hotlines, isDetectingLocation, filterOptions,
                   localStorage, fetchPc, pc, renderError>>

\* getCurrentPosition calls the error callback (the 10 s timeout included):
\* setLocationError(errorMessage); reject(error); then the catch block.
GeolocationError ==
    /\ pc = "coords"
    /\ \E code \in GeolocationCodes :
          /\ locationError' = errorMessage(code)
          /\ CatchBranch([log EXCEPT !.geo = code])
    /\ UNCHANGED <<metadata, hotlines, fetchPc>>

\* The reverse-geocode response arrives: if (!response.ok) throw, else
\* response.json() is awaited.
ReverseGeocodeResponse ==
    /\ pc = "fetch"
    /\ \E ok \in BOOLEAN :
          IF ok
          THEN /\ pc' = "json"
               /\ log' = [log EXCEPT !.fetch = "ok"]
               /\ UNCHANGED <<isDetectingLocation, filterOptions, localStorage,
                              renderError>>
          ELSE CatchBranch([log EXCEPT !.fetch = "not ok"])
    /\ UNCHANGED <<metadata, hotlines, locationError, fetchPc>>

\* fetch rejects (the collaborator is unreachable).
ReverseGeocodeUnreachable ==
    /\ pc = "fetch"
    /\ CatchBranch([log EXCEPT !.fetch = "rejected"])
    /\ UNCHANGED <<metadata, hotlines, locationError, fetchPc>>

\* response.json() resolves with a body whose city property is cityName.
ReverseGeocodeBody ==
    /\ pc = "json"
    /\ \E cityName \in GeocodeCities : ApplyGeocode(cityName, [log EXCEPT !.city = cityName])
    /\ UNCHANGED <<metadata, hotlines, locationError, fetchPc>>

\* response.json() rejects: the body is not JSON.
ReverseGeocodeBodyInvalid ==
    /\ pc = "json"
    /\ CatchBranch([log EXCEPT !.city = InvalidBody])
    /\ UNCHANGED <<metadata, hotlines, locationError, fetchPc>>

-----------------------------------------------------------------------------

Next ==
    \/ FetchMetadataResolved
    \/ FetchMetadataFailed
    \/ FetchHotlinesResolved
    \/ FetchHotlinesFailed
    \/ DetectLocation
    \/ GeolocationSuccess
    \/ GeolocationError
    \/ ReverseGeocodeResponse
    \/ ReverseGeocodeUnreachable
    \/ ReverseGeocodeBody
    \/ ReverseGeocodeBodyInvalid

Spec == Init /\ [][Next]_vars

-----------------------------------------------------------------------------
(* Lists and lookup maps derived from metadata (useMemo) *)

\* regions.map(region => ({name, key})), from the i-th region on.
RECURSIVE regionFiltersFrom(_)
regionFiltersFrom(i) ==
    IF i > Len(regions) THEN <<>>
    ELSE <<[name |-> regions[i].name, key |-> normalizeString(regions[i].name)]>>
         \o regionFiltersFrom(i + 1)

regionFilters == regionFiltersFrom(1)

\* region.provinces.map(province => ({name, regionName, key})), from the j-th on.
RECURSIVE provincesOf(_, _)
provincesOf(region, j) ==
    IF j > Len(region.provinces) THEN <<>>
    ELSE <<[name |-> region.provinces[j].province,
            regionName |-> region.name,
            key |-> normalizeString(region.provinces[j].province)]>>
         \o provincesOf(region, j + 1)

\* regions.flatMap(region => region.provinces.map(...)), from the i-th region on.
RECURSIVE allProvincesFrom(_)
allProvincesFrom(i) ==
    IF i > Len(regions) THEN <<>>
    ELSE provincesOf(regions[i], 1) \o allProvincesFrom(i + 1)

allProvinces == allProvincesFrom(1)

\* The province list: filtered by the selected region, if one is selected.
provinceFilters ==
    LET inRegion(p) == normalizeString(p.regionName) = normalizeString(filterOptions.region)
    IN IF filterOptions.region # <<>> THEN SelectSeq(allProvinces, inRegion)
       ELSE allProvinces

\* data.cities.map(city => ({region, province, city, key, displayName})), from the
\* k-th city on.
RECURSIVE citiesOf(_, _, _)
citiesOf(region, province, k) ==
    IF k > Len(province.cities) THEN <<>>
    ELSE <<[region |-> region.name,
            province |-> province.province,
            city |-> province.cities[k],
            key |-> normalizeString(province.cities[k] \o <<"|">> \o province.province),
            displayName |-> province.cities[k] \o <<" ", "(">>
                            \o province.province \o <<")">>]>>
         \o citiesOf(region, province, k + 1)

RECURSIVE citiesOfRegion(_, _)
citiesOfRegion(region, j) ==
    IF j > Len(region.provinces) THEN <<>>
    ELSE citiesOf(region, region.provinces[j], 1) \o citiesOfRegion(region, j + 1)

\* The two flatMaps of locationFilters, from the i-th region on.
RECURSIVE allCitiesFrom(_)
allCitiesFrom(i) ==
    IF i > Len(regions) THEN <<>>
    ELSE citiesOfRegion(regions[i], 1) \o allCitiesFrom(i + 1)

allCities == allCitiesFrom(1)

\* The city list: filtered by the selected province, else by the selected region.
locationFilters ==
    LET inProvince(c) == normalizeString(c.province) = normalizeString(filterOptions.province)
        inRegion(c) == normalizeString(c.region) = normalizeString(filterOptions.region)
    IN IF filterOptions.province # <<>> THEN SelectSeq(allCities, inProvince)
       ELSE IF filterOptions.region # <<>> THEN SelectSeq(allCities, inRegion)
       ELSE allCities

\* A Map is the sequence of its entries [key, value], in insertion order.
NewMap == <<>>

MapHas(map, key) == \E n \in 1..Len(map) : map[n].key = key

\* map.get(key), for a key the map has.
MapGet(map, key) == map[CHOOSE n \in 1..Len(map) : map[n].key = key].value

\* map.set(key, value): the value of a key the map has is replaced.
MapSet(map, key, value) ==
    IF MapHas(map, key)
    THEN [map EXCEPT ![CHOOSE n \in 1..Len(map) : map[n].key = key].value = value]
    ELSE Append(map, [key |-> key, value |-> value])

\* Mutant of setProvinces: the region is stored as the dataset names it.
RECURSIVE setProvinces_RawRegion(_, _)
setProvinces_RawRegion(map, provinces) ==
    IF provinces = <<>> THEN map
    ELSE setProvinces_RawRegion(
             MapSet(map, normalizeString(Head(provinces).name), Head(provinces).regionName),
             Tail(provinces))

\* regions.forEach(region => region.provinces.forEach(province =>
\* map.set(normalizeString(province.province), normalizeString(region.name)))):
\* the provinces are visited in the order of allProvinces.
RECURSIVE setProvinces(_, _)
setProvinces(map, provinces) ==
    IF provinces = <<>> THEN map
    ELSE setProvinces(
             MapSet(map, normalizeString(Head(provinces).name),
                    normalizeString(Head(provinces).regionName)),
             Tail(provinces))

provinceToRegionMap == setProvinces(NewMap, allProvinces)

\* Mutant of setCities: the region is stored as the dataset names it.
RECURSIVE setCities_RawRegion(_, _)
setCities_RawRegion(map, cities) ==
    IF cities = <<>> THEN map
    ELSE setCities_RawRegion(
             MapSet(map, cityKey(Head(cities).city, Head(cities).province),
                    [region |-> Head(cities).region,
                     province |-> normalizeString(Head(cities).province)]),
             Tail(cities))

\* regions.forEach(... provinces.forEach(... cities.forEach(city =>
\* map.set(cityKey, {region, province})))): the cities are visited in the order
\* of allCities.
RECURSIVE setCities(_, _)
setCities(map, cities) ==
    IF cities = <<>> THEN map
    ELSE setCities(
             MapSet(map, cityKey(Head(cities).city, Head(cities).province),
                    [region |-> normalizeString(Head(cities).region),
                     province |-> normalizeString(Head(cities).province)]),
             Tail(cities))

cityToLocationMap == setCities(NewMap, allCities)

-----------------------------------------------------------------------------
(* The filtered and ordered hotline list (computed at each render) *)

includes(str, c) == \E i \in 1..Len(str) : str[i] = c

\* The part of str before its first c, and the part after it.
RECURSIVE BeforeFirst(_, _)
BeforeFirst(str, c) ==
    IF str = <<>> \/ Head(str) = c THEN <<>>
    ELSE <<Head(str)>> \o BeforeFirst(Tail(str), c)

RECURSIVE AfterFirst(_, _)
AfterFirst(str, c) ==
    IF str = <<>> THEN <<>>
    ELSE IF Head(str) = c THEN Tail(str)
    ELSE AfterFirst(Tail(str), c)

\* const [city, province] = filterValue.split('|'): the first two parts.
extractLocationFromFilter(filterValue) ==
    IF includes(filterValue, "|")
    THEN [city |-> BeforeFirst(filterValue, "|"),
          province |-> JsString(BeforeFirst(AfterFirst(filterValue, "|"), "|"))]
    ELSE [city |-> filterValue, province |-> Undefined]

\* Mutant of keepsHotline: a set city decides alone.
keepsHotline_CityFirst(hotline, filter) ==
    IF filter.city # <<>>
    THEN normalizeString(hotline.city)
             = normalizeString(extractLocationFromFilter(filter.city).city)
    ELSE /\ filter.region # <<>> =>
                normalizeString(hotline.regionName) = normalizeString(filter.region)
         /\ filter.province # <<>> =>
                normalizeString(hotline.province) = normalizeString(filter.province)

\* The callback of hotlines.hotlines.filter(hotline => ...), for filterOptions = filter.
keepsHotline(hotline, filter) ==
    IF filter.region # <<>>
       /\ normalizeString(hotline.regionName) # normalizeString(filter.region)
    THEN FALSE
    ELSE IF filter.province # <<>>
            /\ normalizeString(hotline.province) # normalizeString(filter.province)
    THEN FALSE
    ELSE IF filter.city # <<>>
    THEN LET locationFromFilter == extractLocationFromFilter(filter.city)
         IN IF OrEmpty(locationFromFilter.province) # <<>>
            THEN /\ normalizeString(hotline.city) = normalizeString(locationFromFilter.city)
                 /\ normalizeString(hotline.province)
                        = normalizeString(locationFromFilter.province.s)
            ELSE normalizeString(hotline.city) = normalizeString(locationFromFilter.city)
    ELSE TRUE

Categories ==
    {"police_hotlines", "fire_hotlines", "medical_hotlines", "government_hotlines",
     "utility_hotlines"}

\* Mutant of hotlineTypeMap: 'Emergency Hotlines' stands for the police hotlines only.
hotlineTypeMap_PoliceOnly ==
    ("Emergency Hotlines" :> {"police_hotlines"})
    @@ ("Medical Hotlines" :> {"medical_hotlines"})
    @@ ("Government Hotlines" :> {"government_hotlines"})
    @@ ("Utility Hotlines" :> {"utility_hotlines"})

hotlineTypeMap ==
    ("Emergency Hotlines" :> {"police_hotlines", "fire_hotlines"})
    @@ ("Medical Hotlines" :> {"medical_hotlines"})
    @@ ("Government Hotlines" :> {"government_hotlines"})
    @@ ("Utility Hotlines" :> {"utility_hotlines"})

\* selectedHotlines after both filter passes, for the dataset list and filterOptions = filter.
selectedHotlines(list, filter) ==
    LET located(hotline) == keepsHotline(hotline, filter)
        ofCategory(hotline) == hotline.category \in hotlineTypeMap[filter.category]
    IN IF filter.category # "All Hotlines"
       THEN SelectSeq(SelectSeq(list, located), ofCategory)
       ELSE SelectSeq(list, located)

sort ==
    [police_hotlines |-> 0, medical_hotlines |-> 1, fire_hotlines |-> 2,
     government_hotlines |-> 3, utility_hotlines |-> 4]

\* The primary collation order of the characters hotline names are written with;
\* at sensitivity 'base' a letter and its capital are the same.
Collation == <<" ", "a", "b", "c", "m", "n", "p", "q", "v", "x">>

CollationRank(c) == CHOOSE i \in 1..Len(Collation) : Collation[i] = LowerChar(c)

\* a.localeCompare(b, 'en', { sensitivity: 'base' }): negative, zero or positive.
RECURSIVE localeCompare(_, _)
localeCompare(a, b) ==
    IF a = <<>> /\ b = <<>> THEN 0
    ELSE IF a = <<>> THEN -1
    ELSE IF b = <<>> THEN 1
    ELSE IF CollationRank(Head(a)) < CollationRank(Head(b)) THEN -1
    ELSE IF CollationRank(Head(a)) > CollationRank(Head(b)) THEN 1
    ELSE localeCompare(Tail(a), Tail(b))

\* Mutant of compare: the names are compared first.
compare_NameFirst(a, b) ==
    IF localeCompare(a.hotlineName, b.hotlineName) # 0
    THEN localeCompare(a.hotlineName, b.hotlineName)
    ELSE sort[a.category] - sort[b.category]

\* The comparator passed to selectedHotlines.sort.
compare(a, b) ==
    LET categoryDiff == sort[a.category] - sort[b.category]
    IN IF categoryDiff # 0 THEN categoryDiff
       ELSE localeCompare(a.hotlineName, b.hotlineName)

\* Mutant of insert: an element goes before the elements it compares equal to.
insert_BeforeEqual(sorted, x) ==
    LET before(y) == compare(y, x) < 0
        after(y) == compare(y, x) >= 0
    IN SelectSeq(sorted, before) \o <<x>> \o SelectSeq(sorted, after)

\* One step of a stable sort: x, which comes after the elements of sorted in
\* the array, goes behind every element that does not compare greater.
insert(sorted, x) ==
    LET before(y) == compare(y, x) <= 0
        after(y) == compare(y, x) > 0
    IN SelectSeq(sorted, before) \o <<x>> \o SelectSeq(sorted, after)

\* Array.prototype.sort(compare): a stable sort (ECMAScript 2019).
RECURSIVE ArraySort(_)
ArraySort(array) ==
    IF array = <<>> THEN <<>>
    ELSE insert(ArraySort(SubSeq(array, 1, Len(array) - 1)), array[Len(array)])

\* sortedSelectedHotlines for the dataset list and filterOptions = filter.
sortedHotlines(list, filter) == ArraySort(selectedHotlines(list, filter))

\* sortedSelectedHotlines of the current render.
sortedSelectedHotlines == sortedHotlines(hotlines.hotlines, filterOptions)

-----------------------------------------------------------------------------
(* User actions: the handlers of the rendered page *)

\* if (!hotlines || !metadata || isDetectingLocation) return <Loading/>: the page
\* with its selectors and buttons is rendered only past this gate.
PageRendered ==
    /\ hotlines # NotLoaded
    /\ metadata # NotLoaded
    /\ isDetectingLocation = FALSE
    /\ renderError = FALSE

\* The history of a user action: its handler, the key the handler was called
\* with (if any) and its calls of localStorage.setItem.
UserLog(handler, key, writes) ==
    [InitialLog EXCEPT !.action = handler, !.argument = key, !.storeWrites = writes]

\* Mutant of handleRegionChange: the province and the city are kept.
handleRegionChange_KeepLower(regionKey) ==
    /\ updateLocation([region |-> regionKey, province |-> filterOptions.province,
                       city |-> filterOptions.city])
    /\ log' = UserLog("handleRegionChange", regionKey, 1)
    /\ UNCHANGED <<metadata, hotlines, isDetectingLocation, locationError, fetchPc, pc,
                   renderError>>

handleRegionChange(regionKey) ==
    /\ updateLocation([region |-> regionKey, province |-> <<>>, city |-> <<>>])
    /\ log' = UserLog("handleRegionChange", regionKey, 1)
    /\ UNCHANGED <<metadata, hotlines, isDetectingLocation, locationError, fetchPc, pc,
                   renderError>>

\* Mutant of foundRegion: the lookup finds nothing.
foundRegion_Missing(provinceKey) == <<>>

\* provinceToRegionMap.get(provinceKey) || ''
foundRegion(provinceKey) ==
    LET map == provinceToRegionMap
    IN IF MapHas(map, provinceKey) THEN MapGet(map, provinceKey) ELSE <<>>

handleProvinceChange(provinceKey) ==
    /\ updateLocation([region |-> foundRegion(provinceKey), province |-> provinceKey,
                       city |-> <<>>])
    /\ log' = UserLog("handleProvinceChange", provinceKey, 1)
    /\ UNCHANGED <<metadata, hotlines, isDetectingLocation, locationError, fetchPc, pc,
                   renderError>>

\* Mutant of handleCityChange: a key the map does not hold is taken as a city
\* without region and province.
handleCityChange_AnyKey(key) ==
    /\ LET map == cityToLocationMap
       IN IF MapHas(map, key)
          THEN LET locationData == MapGet(map, key)
               IN /\ updateLocation([region |-> locationData.region,
                                     province |-> locationData.province,
                                     city |-> key])
                  /\ log' = UserLog("handleCityChange", key, 1)
          ELSE /\ updateLocation([region |-> <<>>, province |-> <<>>, city |-> key])
               /\ log' = UserLog("handleCityChange", key, 1)
    /\ UNCHANGED <<metadata, hotlines, isDetectingLocation, locationError, fetchPc, pc,
                   renderError>>

\* if (!locationData) { setCitySelectOpen(false); return; }
handleCityChange(key) ==
    /\ LET map == cityToLocationMap
       IN IF MapHas(map, key)
          THEN LET locationData == MapGet(map, key)
               IN /\ updateLocation([region |-> locationData.region,
                                     province |-> locationData.province,
                                     city |-> key])
                  /\ log' = UserLog("handleCityChange", key, 1)
          ELSE /\ log' = UserLog("handleCityChange", key, 0)
               /\ UNCHANGED <<filterOptions, localStorage>>
    /\ UNCHANGED <<metadata, hotlines, isDetectingLocation, locationError, fetchPc, pc,
                   renderError>>

handleClearRegion ==
    /\ updateLocation([region |-> <<>>, province |-> <<>>, city |-> <<>>])
    /\ log' = UserLog("handleClearRegion", <<>>, 1)
    /\ UNCHANGED <<metadata, hotlines, isDetectingLocation, locationError, fetchPc, pc,
                   renderError>>

handleClearProvince ==
    /\ updateLocation([region |-> filterOptions.region, province |-> <<>>, city |-> <<>>])
    /\ log' = UserLog("handleClearProvince", <<>>, 1)
    /\ UNCHANGED <<metadata, hotlines, isDetectingLocation, locationError, fetchPc, pc,
                   renderError>>

\* Mutant of handleClearCity: only the filter is changed, nothing is stored.
handleClearCity_NoSave ==
    /\ filterOptions' = [filterOptions EXCEPT !.city = <<>>]
    /\ log' = UserLog("handleClearCity", <<>>, 0)
    /\ UNCHANGED <<metadata, hotlines, isDetectingLocation, locationError, localStorage,
                   fetchPc, pc, renderError>>

handleClearCity ==
    /\ updateLocation([region |-> filterOptions.region,
                       province |-> filterOptions.province, city |-> <<>>])
    /\ log' = UserLog("handleClearCity", <<>>, 1)
    /\ UNCHANGED <<metadata, hotlines, isDetectingLocation, locationError, fetchPc, pc,
                   renderError>>

\* Mutant of SelectRegion: the region list can be used as soon as metadata is there.
SelectRegion_Ungated ==
    /\ metadata # NotLoaded
    /\ LET list == regionFilters
       IN \E i \in 1..Len(list) : handleRegionChange(list[i].key)

\* onSelect of an item of the region list.
SelectRegion ==
    /\ PageRendered
    /\ LET list == regionFilters
       IN \E i \in 1..Len(list) : handleRegionChange(list[i].key)

\* onSelect of an item of the province list.
SelectProvince ==
    /\ PageRendered
    /\ LET list == provinceFilters
       IN \E i \in 1..Len(list) : handleProvinceChange(list[i].key)

\* onSelect of an item of the city list.
SelectCity ==
    /\ PageRendered
    /\ LET list == locationFilters
       IN \E i \in 1..Len(list) : handleCityChange(list[i].key)

\* The clear buttons exist only while their level is set ({filterOptions.region && ...}).
ClearRegion == PageRendered /\ filterOptions.region # <<>> /\ handleClearRegion

ClearProvince == PageRendered /\ filterOptions.province # <<>> /\ handleClearProvince

ClearCity == PageRendered /\ filterOptions.city # <<>> /\ handleClearCity

\* The Dismiss button of the error message: setLocationError(null).
DismissError ==
    /\ PageRendered
    /\ locationError # NoError
    /\ locationError' = NoError
    /\ log' = UserLog("dismissError", <<>>, 0)
    /\ UNCHANGED <<metadata, hotlines, isDetectingLocation, filterOptions, localStorage,
                   fetchPc, pc, renderError>>

hotlineTypes == {"All Hotlines", "Emergency", "Medical", "Government", "Utility"}

\* Mutant of hotlineCategoryMap: the entry of the 'Emergency' button is missing.
hotlineCategoryMap_NoEmergency ==
    ("All Hotlines" :> "All Hotlines")
    @@ ("Medical" :> "Medical Hotlines")
    @@ ("Government" :> "Government Hotlines")
    @@ ("Utility" :> "Utility Hotlines")

hotlineCategoryMap ==
    ("All Hotlines" :> "All Hotlines")
    @@ ("Emergency" :> "Emergency Hotlines")
    @@ ("Medical" :> "Medical Hotlines")
    @@ ("Government" :> "Government Hotlines")
    @@ ("Utility" :> "Utility Hotlines")

\* onClick of a category button: category: hotlineCategoryMap[hotlineType] || 'all_hotlines'.
CategoryButton ==
    /\ PageRendered
    /\ \E hotlineType \in hotlineTypes :
          filterOptions' =
              [filterOptions EXCEPT !.category =
                  IF hotlineType \in DOMAIN hotlineCategoryMap
                  THEN hotlineCategoryMap[hotlineType]
                  ELSE "all_hotlines"]
    /\ log' = UserLog("category", <<>>, 0)
    /\ UNCHANGED <<metadata, hotlines, isDetectingLocation, locationError, localStorage,
                   fetchPc, pc, renderError>>

\* 'View All Hotlines', shown when the list is empty: category: 'All Hotlines'.
ViewAllHotlines ==
    /\ PageRendered
    /\ sortedSelectedHotlines = <<>>
    /\ filterOptions' = [filterOptions EXCEPT !.category = "All Hotlines"]
    /\ log' = UserLog("viewAllHotlines", <<>>, 0)
    /\ UNCHANGED <<metadata, hotlines, isDetectingLocation, locationError, localStorage,
                   fetchPc, pc, renderError>>

UserAction ==
    \/ SelectRegion
    \/ SelectProvince
    \/ SelectCity
    \/ ClearRegion
    \/ ClearProvince
    \/ ClearCity
    \/ DismissError
    \/ CategoryButton
    \/ ViewAllHotlines

\* The page with its user: loading, the resolver chain, then any user actions.
UserNext == Next \/ UserAction

UserSpec == Init /\ [][UserNext]_vars

-----------------------------------------------------------------------------
(* The filter applied: the rendered page for bounded datasets and filters *)

\* A dataset with a city name shared by two provinces and a province name
\* shared by two regions.
FilterMetadata ==
    [metadata |-> [regions |->
        Nest(<<[region |-> <<"N">>, province |-> <<"P">>, city |-> <<"M", " ">>],
               [region |-> <<"N">>, province |-> <<" ", "q">>, city |-> <<"M", " ">>],
               [region |-> <<"v", " ">>, province |-> <<" ", "q">>, city |-> <<"c">>]>>)]]

\* Hotlines as /data/hotlines.json lists them (without their numbers).
HotlineKinds ==
    {[hotlineName |-> <<"c">>, category |-> "police_hotlines",
      city |-> <<"M", " ">>, province |-> <<"P">>, regionName |-> <<"N">>],
     [hotlineName |-> <<"a">>, category |-> "fire_hotlines",
      city |-> <<"M", " ">>, province |-> <<"P">>, regionName |-> <<"N">>],
     [hotlineName |-> <<"C">>, category |-> "police_hotlines",
      city |-> <<"M", " ">>, province |-> <<" ", "q">>, regionName |-> <<"N">>],
     [hotlineName |-> <<"a">>, category |-> "medical_hotlines",
      city |-> <<"c">>, province |-> <<" ", "q">>, regionName |-> <<"v", " ">>],
     [hotlineName |-> <<"a">>, category |-> "government_hotlines",
      city |-> <<"M", " ">>, province |-> <<" ", "q">>, regionName |-> <<"N">>],
     [hotlineName |-> <<"A">>, category |-> "utility_hotlines",
      city |-> <<"M", " ">>, province |-> <<"P">>, regionName |-> <<"N">>],
     [hotlineName |-> <<"c">>, category |-> "fire_hotlines",
      city |-> <<"c">>, province |-> <<" ", "q">>, regionName |-> <<"v", " ">>]}

Digits == <<"1", "2", "3", "4", "5", "6", "7", "8", "9">>

\* The hotlines of kinds, each with its own hotlineNumber.
RECURSIVE Numbered(_, _)
Numbered(kinds, i) ==
    IF i > Len(kinds) THEN <<>>
    ELSE <<[hotlineName |-> kinds[i].hotlineName,
            hotlineNumber |-> <<Digits[i]>>,
            category |-> kinds[i].category,
            city |-> kinds[i].city,
            province |-> kinds[i].province,
            regionName |-> kinds[i].regionName]>>
         \o Numbered(kinds, i + 1)

FilterHotlineDatasets ==
    {[hotlines |-> Numbered(kinds, 1)] :
        kinds \in UNION {[1..n -> HotlineKinds] : n \in 0..MaxHotlines}}

\* Locations a stored triple may hold: keys the engine builds for FilterMetadata,
\* a legacy bare city, names as a dataset spells them, a key without a province
\* part, a region no hotline is in.
FilterLocations ==
    {[region |-> <<>>, province |-> <<>>, city |-> <<>>],
     [region |-> <<"n">>, province |-> <<>>, city |-> <<>>],
     [region |-> <<"v">>, province |-> <<>>, city |-> <<>>],
     [region |-> <<"x">>, province |-> <<>>, city |-> <<>>],
     [region |-> <<"N">>, province |-> <<>>, city |-> <<>>],
     [region |-> <<"n">>, province |-> <<"p">>, city |-> <<>>],
     [region |-> <<"n">>, province |-> <<"q">>, city |-> <<>>],
     [region |-> <<>>, province |-> <<"q">>, city |-> <<>>],
     [region |-> <<"v">>, province |-> <<"p">>, city |-> <<>>],
     [region |-> <<"n">>, province |-> <<"p">>, city |-> <<"m", " ", "|", "p">>],
     [region |-> <<"n">>, province |-> <<"q">>, city |-> <<"m", " ", "|", " ", "q">>],
     [region |-> <<"v">>, province |-> <<"q">>, city |-> <<"c", "|", " ", "q">>],
     [region |-> <<"n">>, province |-> <<"p">>, city |-> <<"m", "|", "p">>],
     [region |-> <<>>, province |-> <<>>, city |-> <<"m", "|", "q">>],
     [region |-> <<>>, province |-> <<>>, city |-> <<"m">>],
     [region |-> <<>>, province |-> <<>>, city |-> <<"m", "|">>],
     [region |-> <<"v">>, province |-> <<>>, city |-> <<"m">>]}

\* The page as first rendered in a browser without geolocation whose store held
\* the triple `location`: the chain has loaded it (DetectLocation, persisted branch).
FilterInit ==
    \E dataset \in FilterHotlineDatasets, location \in FilterLocations :
        /\ metadata = FilterMetadata
        /\ hotlines = dataset
        /\ isDetectingLocation = FALSE
        /\ locationError = UnsupportedMessage
        /\ filterOptions = [region |-> location.region, province |-> location.province,
                            city |-> location.city, category |-> "All Hotlines"]
        /\ localStorage = JSONstringify(location)
        /\ fetchPc = "done"
        /\ pc = "done"
        /\ renderError = FALSE
        /\ log = [InitialLog EXCEPT !.geo = "unsupported", !.storeReads = 1,
                                    !.stored = JSONstringify(location),
                                    !.resolvedBy = "persisted", !.flips = 1]

FilterNext == CategoryButton \/ ViewAllHotlines

FilterSpec == FilterInit /\ [][FilterNext]_vars

-----------------------------------------------------------------------------
(* handleCityChange called with any key *)

\* Keys handleCityChange is called with: the keys of FilterMetadata's cities,
\* and keys cityToLocationMap does not hold (component-wise normalized, of an
\* unknown city, without separator, empty).
CityKeys ==
    {<<"m", " ", "|", "p">>, <<"m", " ", "|", " ", "q">>, <<"c", "|", " ", "q">>,
     <<"m", "|", "p">>, <<"x", "|", "p">>, <<"m">>, <<>>}

HandleCityChangeCall ==
    /\ PageRendered
    /\ \E key \in CityKeys : handleCityChange(key)

CityNext == HandleCityChangeCall

\* The rendered page of FilterInit, with handleCityChange called any number of times.
CitySpec == FilterInit /\ [][CityNext]_vars

-----------------------------------------------------------------------------
(* Vocabulary of the claims *)

\* getLocation has run to its end: it returned, or it threw out of its catch block.
Ended == pc \in {"done", "rejected"}

\* The geolocation stage failed (stage 1).
GeoFailed == log.geo \in GeolocationCodes \cup {"unsupported"}

\* The reverse-geocode response was a non-success response.
ResponseNotOk == log.fetch = "not ok"

\* Stage 1 or stage 2 failed.
StageFailed == GeoFailed \/ log.fetch \in {"not ok", "rejected"}

\* The location part of a filter or of a stored triple.
LocationOf(f) == [region |-> f.region, province |-> f.province, city |-> f.city]

EmptyLocation == [region |-> <<>>, province |-> <<>>, city |-> <<>>]

\* Positions <<i, j, k>> of the cities of the dataset, and dataset order on them.
CityPositions ==
    UNION {UNION {{<<i, j, k>> : k \in 1..Len(regions[i].provinces[j].cities)} :
                     j \in 1..Len(regions[i].provinces)} :
              i \in 1..Len(regions)}

CityAt(p) == regions[p[1]].provinces[p[2]].cities[p[3]]
ProvinceAt(p) == regions[p[1]].provinces[p[2]].province
RegionAt(p) == regions[p[1]].name

Before(p, q) ==
    \/ p[1] < q[1]
    \/ p[1] = q[1] /\ p[2] < q[2]
    \/ p[1] = q[1] /\ p[2] = q[2] /\ p[3] < q[3]

\* The cities whose normalized name equals the normalized name `name`.
Matches(name) ==
    {p \in CityPositions : normalizeString(CityAt(p)) = normalizeString(name)}

FirstMatch(name) ==
    CHOOSE p \in Matches(name) : \A q \in Matches(name) : q = p \/ Before(p, q)

\* The location of the city at position p: normalized region, normalized
\* province, and the key the engine builds for the city and its province.
LocationAt(p) ==
    [region |-> normalizeString(RegionAt(p)),
     province |-> normalizeString(ProvinceAt(p)),
     city |-> cityKey(CityAt(p), ProvinceAt(p))]

\* The reverse-geocode call succeeded with a body that names a city.
GeocodedCity == log.geo = "ok" /\ log.fetch = "ok" /\ log.city.t = "string"

-----------------------------------------------------------------------------
(* C1 *)

\* C1 (as claimed): the resolver chain terminates for every metadata dataset and
\* every outcome of geolocation, reverse geocode and the store read: once
\* getLocation has run to its end, isDetectingLocation is false, and
\* setIsDetectingLocation(false) has run exactly once.
C1_ChainTerminates ==
    Ended => /\ isDetectingLocation = FALSE
             /\ log.flips = 1
             /\ renderError = FALSE

-----------------------------------------------------------------------------
(* C2 *)

\* C2 (as claimed): when the chain has terminated (no user action is part of
\* this specification), region, province and city are not all empty.
C2_ResolvedNonNull ==
    isDetectingLocation = FALSE => LocationOf(filterOptions) # EmptyLocation

\* A stored string that carries no region, province or city: an object whose
\* three fields are missing or empty, a JSON primitive, or a blank legacy string.
CarriesNoLocation(stored) ==
    CASE stored.kind = "object" ->
            \A f \in {"region", "province", "city"} :
                stored[f].t = "undefined" \/ stored[f].s = <<>>
      [] stored.kind = "raw" -> \A i \in 1..Len(stored.chars) : stored.chars[i] = " "
      [] OTHER -> TRUE

\* C2 (amended): when the chain has terminated, a location produced by the
\* hierarchy match or the dataset default is non-null (its city key is never
\* empty); a location loaded from the persisted store is all-empty exactly when
\* the stored string carries no region, province or city.
C2_ResolvedNonNullUnlessStoredEmpty ==
    isDetectingLocation = FALSE =>
        /\ log.resolvedBy \in {"match", "default", "persisted", "legacy"}
        /\ log.resolvedBy \in {"match", "default"} =>
               /\ filterOptions.city # <<>>
               /\ LocationOf(filterOptions) # EmptyLocation
        /\ log.resolvedBy \in {"persisted", "legacy"} =>
               (LocationOf(filterOptions) = EmptyLocation <=> CarriesNoLocation(log.stored))

\* Witness of C2: the chain terminated by loading a stored triple that names a region.
C2_Witness ==
    /\ isDetectingLocation = FALSE
    /\ log.resolvedBy = "persisted"
    /\ filterOptions.region # <<>>

-----------------------------------------------------------------------------
(* C3 *)

\* C3: once the geolocation request has failed or the reverse-geocode response
\* is a non-success response, the persisted-location read has been made (exactly
\* once, in the same step), no request has been issued a second time and no
\* hierarchy match has been attempted.
C3_FailureGoesToStoreRead ==
    (GeoFailed \/ ResponseNotOk) =>
        /\ Ended
        /\ log.storeReads = 1
        /\ log.geoRequests = (IF log.geo = "unsupported" THEN 0 ELSE 1)
        /\ log.fetchRequests = (IF ResponseNotOk THEN 1 ELSE 0)
        /\ log.matchAttempts = 0

\* Witness of C3: a non-success reverse-geocode response sent the chain to the store.
C3_Witness == ResponseNotOk /\ log.storeReads = 1 /\ pc = "done"

-----------------------------------------------------------------------------
(* C4 *)

\* C4 (as claimed): in a run where geolocation succeeded and the reverse-geocode
\* response was a success response, the resolver never reads the persisted
\* store, whatever the body holds.
C4_StoreNotReadAfterSuccess ==
    (log.geo = "ok" /\ log.fetch = "ok") => log.storeReads = 0

-----------------------------------------------------------------------------
(* C5 *)

-----------------------------------------------------------------------------
(* C6 *)

\* C6 (as claimed): when geolocation and reverse geocode succeeded but the
\* returned city matches no city of the metadata, the chain ends with the
\* dataset default: the persisted store is not read, and it is overwritten.
C6_NoMatchGoesToDefault ==
    (Ended /\ GeocodedCity /\ Matches(log.city.s) = {}) =>
        /\ log.resolvedBy = "default"
        /\ log.storeReads = 0
        /\ log.storeWrites = 1
        /\ localStorage = JSONstringify(LocationOf(filterOptions))

-----------------------------------------------------------------------------
(* C7 *)

\* A field of a stored object, a missing field read as empty.
FieldOrEmpty(v) == IF v.t = "undefined" THEN <<>> ELSE v.s

\* C7: in the persisted fallback a stored object is loaded as-is (its three
\* fields, a missing field read as empty), and a stored bare legacy string is
\* loaded as city = normalize(string) with region and province empty.
C7_PersistedLoadedAsIs ==
    (isDetectingLocation = FALSE /\ log.storeReads = 1 /\ Truthy(log.stored)) =>
        /\ log.stored.kind = "object" =>
               LocationOf(filterOptions) =
                   [region |-> FieldOrEmpty(log.stored.region),
                    province |-> FieldOrEmpty(log.stored.province),
                    city |-> FieldOrEmpty(log.stored.city)]
        /\ log.stored.kind = "raw" =>
               LocationOf(filterOptions) =
                   [region |-> <<>>, province |-> <<>>,
                    city |-> trim(toLowerCase(log.stored.chars))]

\* Witness of C7: a legacy bare city with upper case and a trailing blank was loaded.
C7_Witness ==
    /\ isDetectingLocation = FALSE
    /\ log.storeReads = 1
    /\ log.stored.kind = "raw"
    /\ log.stored.chars # filterOptions.city
    /\ filterOptions.city # <<>>

-----------------------------------------------------------------------------
(* C8 *)

\* C8 (as claimed): for every non-empty stored string that is not the JSON text
\* of an object, the persisted fallback uses the raw string as the city key
\* (legacy handling), the chain terminates and nothing fatal happens.
C8_NonObjectHandledAsLegacy ==
    (Ended /\ log.storeReads = 1 /\ Truthy(log.stored) /\ log.stored.kind # "object") =>
        /\ isDetectingLocation = FALSE
        /\ renderError = FALSE
        /\ LocationOf(filterOptions) =
               [region |-> <<>>, province |-> <<>>,
                city |-> normalizeString(StoredText(log.stored))]

-----------------------------------------------------------------------------
(* C9 *)

\* C9 (as claimed): when stage 1 or 2 failed and nothing is stored, the chain
\* ends with the dataset default -- normalized first region, normalized first
\* province, city key of that province's first city -- in the filter and in the
\* persisted store.
C9_DefaultWhenNothingStored ==
    (Ended /\ StageFailed /\ log.storeReads = 1 /\ log.stored.kind = "absent") =>
        /\ CityPositions # {}
        /\ <<1, 1, 1>> \in CityPositions
        /\ isDetectingLocation = FALSE
        /\ LocationOf(filterOptions) = LocationAt(<<1, 1, 1>>)
        /\ localStorage = JSONstringify(LocationAt(<<1, 1, 1>>))

-----------------------------------------------------------------------------
(* C10 *)

\* C10 (as claimed): at the end of a resolver run locationError is set iff the
\* geolocation stage failed, and a set locationError coexists with a resolved
\* location.
C10_ErrorIffGeoFailed ==
    Ended =>
        /\ (locationError # NoError) <=> GeoFailed
        /\ locationError # NoError =>
               (isDetectingLocation = FALSE /\ log.resolvedBy # "none")

-----------------------------------------------------------------------------
(* C11 *)

\* C11: every user location action applies the cascade, from every filter state
\* the page can be in: handleRegionChange(r) yields (r, '', '');
\* handleProvinceChange(p) yields province p and city ''; handleClearRegion
\* yields ('', '', ''); handleClearProvince keeps the region and yields province
\* '' and city ''; handleClearCity keeps region and province and yields city ''.
C11_HandlersApplyCascade ==
    [][/\ log'.action = "handleRegionChange" =>
              LocationOf(filterOptions') =
                  [region |-> log'.argument, province |-> <<>>, city |-> <<>>]
       /\ log'.action = "handleProvinceChange" =>
              /\ filterOptions'.province = log'.argument
              /\ filterOptions'.city = <<>>
       /\ log'.action = "handleClearRegion" =>
              LocationOf(filterOptions') = EmptyLocation
       /\ log'.action = "handleClearProvince" =>
              LocationOf(filterOptions') =
                  [region |-> filterOptions.region, province |-> <<>>, city |-> <<>>]
       /\ log'.action = "handleClearCity" =>
              LocationOf(filterOptions') =
                  [region |-> filterOptions.region,
                   province |-> filterOptions.province, city |-> <<>>]
      ]_vars

\* Witness of C11: the province was cleared and the region is still selected.
C11_Witness ==
    /\ log.action = "handleClearProvince"
    /\ filterOptions.region # <<>>
    /\ filterOptions.province = <<>>
    /\ filterOptions.city = <<>>

-----------------------------------------------------------------------------
(* C12 *)

\* The cascade on a location: a set city implies a set province, and a set
\* province implies a set region.
Cascade(location) ==
    /\ location.city # <<>> => location.province # <<>>
    /\ location.province # <<>> => location.region # <<>>

\* C12 (as claimed): in every state after the resolver has run, and after any
\* sequence of select and clear actions, the filter satisfies the cascade.
C12_FilterIsCascade ==
    isDetectingLocation = FALSE => Cascade(filterOptions)

\* The location a stored string stands for in the persisted fallback.
StoredLocation(stored) ==
    CASE stored.kind = "object" ->
            [region |-> FieldOrEmpty(stored.region),
             province |-> FieldOrEmpty(stored.province),
             city |-> FieldOrEmpty(stored.city)]
      [] stored.kind = "raw" ->
            [region |-> <<>>, province |-> <<>>, city |-> trim(toLowerCase(stored.chars))]
      [] OTHER -> EmptyLocation

\* The filter the resolver chain left satisfies the cascade when the hierarchy
\* match or the dataset default produced it, and when the persisted fallback
\* produced it exactly if the stored value does.
ResolvedCascade(filter, history) ==
    /\ history.resolvedBy \in {"match", "default"} => Cascade(filter)
    /\ history.resolvedBy \in {"persisted", "legacy"} =>
           (Cascade(filter) <=> Cascade(StoredLocation(history.stored)))

\* C12 (amended): the resolver leaves a filter that satisfies the cascade, except
\* that a location loaded from the persisted store satisfies it exactly if the
\* stored value does (a legacy bare city does not); every select action and
\* clear-region establish the cascade, and every other user action preserves it.
C12_CascadeUnlessLoadedWithout ==
    [][/\ (isDetectingLocation' = FALSE /\ log'.action = "none") =>
              ResolvedCascade(filterOptions', log')
       /\ (log'.action \in {"handleRegionChange", "handleProvinceChange",
                            "handleCityChange", "handleClearRegion"}
           /\ log'.storeWrites = 1) =>
              Cascade(filterOptions')
       /\ log'.action # "none" =>
              (Cascade(filterOptions) => Cascade(filterOptions'))
      ]_vars

\* Witness of C12: a city was selected from the list after the resolver had
\* loaded a legacy bare city, or after any other run.
C12_Witness ==
    /\ log.action = "handleCityChange"
    /\ filterOptions.city # <<>>
    /\ filterOptions.province # <<>>
    /\ filterOptions.region # <<>>

-----------------------------------------------------------------------------
(* C13 *)

\* The regions, by index, that have a province whose normalized name is key.
RegionsWith(key) ==
    {i \in 1..Len(regions) :
        \E j \in 1..Len(regions[i].provinces) :
            normalizeString(regions[i].provinces[j].province) = key}

\* The first of them in dataset order.
FirstRegionWith(key) ==
    CHOOSE i \in RegionsWith(key) : \A k \in RegionsWith(key) : i <= k

\* C13 (as claimed): after handleProvinceChange(p) the filter's region is the
\* normalized name of p's parent region, whatever region was selected before;
\* when the normalized province name appears under two regions, it is the
\* first-indexed one in dataset order.
C13_ProvinceSetsParentRegion ==
    log.action = "handleProvinceChange" =>
        /\ RegionsWith(log.argument) # {}
        /\ filterOptions.region =
               normalizeString(regions[FirstRegionWith(log.argument)].name)

-----------------------------------------------------------------------------
(* C14 *)

\* The normalized region and province of an entry of the city list.
OwnLocation(entry) ==
    [region |-> normalizeString(entry.region),
     province |-> normalizeString(entry.province)]

\* The entries of the city list, by index, that carry the key.
EntriesWith(list, key) == {n \in 1..Len(list) : list[n].key = key}

-----------------------------------------------------------------------------
(* C15 *)

LocationHandlers ==
    {"handleRegionChange", "handleProvinceChange", "handleCityChange",
     "handleClearRegion", "handleClearProvince", "handleClearCity"}

\* The stored string is the JSON text of a full {region, province, city} triple.
FullTriple(stored) ==
    /\ stored.kind = "object"
    /\ stored.region.t = "string"
    /\ stored.province.t = "string"
    /\ stored.city.t = "string"

\* C15: after every user action that changes the location, the string stored
\* under lastSavedLocation is the serialized full triple equal to the filter's
\* new location, whatever was stored before (a location handler that does not
\* write changes nothing); a category change performs no write and leaves the
\* stored string unchanged.
C15_LocationActionsPersistTriple ==
    [][/\ log'.action \in LocationHandlers =>
              \/ /\ log'.storeWrites = 1
                 /\ FullTriple(localStorage')
                 /\ localStorage'.region.s = filterOptions'.region
                 /\ localStorage'.province.s = filterOptions'.province
                 /\ localStorage'.city.s = filterOptions'.city
              \/ /\ log'.storeWrites = 0
                 /\ filterOptions' = filterOptions
                 /\ localStorage' = localStorage
       /\ log'.action \in LocationHandlers =>
              filterOptions'.category = filterOptions.category
       /\ log'.action \in {"category", "viewAllHotlines"} =>
              /\ log'.storeWrites = 0
              /\ localStorage' = localStorage
              /\ LocationOf(filterOptions') = LocationOf(filterOptions)
      ]_vars

\* Witness of C15: the city was cleared, and the stored triple is the new
\* location with its region and province.
C15_Witness ==
    /\ log.action = "handleClearCity"
    /\ FullTriple(localStorage)
    /\ localStorage.region.s = filterOptions.region
    /\ localStorage.province.s # <<>>
    /\ localStorage.city.s = <<>>

-----------------------------------------------------------------------------
(* C16 *)

\* The hotlines the location filter keeps: the list with category 'All Hotlines'.
LocationPass(list, filter) ==
    selectedHotlines(list, [filter EXCEPT !.category = "All Hotlines"])

Range(seq) == {seq[i] : i \in 1..Len(seq)}

\* The two parts of a composite key: before its separator, and after it.
KeyCity(key) == BeforeFirst(key, "|")
KeyProvince(key) == AfterFirst(key, "|")

\* All set levels match, as the claim states it.
AllSetLevelsMatch(hotline, filter) ==
    /\ filter.region # <<>> => normalizeString(hotline.regionName) = filter.region
    /\ filter.province # <<>> => normalizeString(hotline.province) = filter.province
    /\ filter.city # <<>> =>
           IF includes(filter.city, "|")
           THEN /\ normalizeString(hotline.city) = KeyCity(filter.city)
                /\ normalizeString(hotline.province) = KeyProvince(filter.city)
           ELSE normalizeString(hotline.city) = filter.city

\* C16 (as claimed): the location filter keeps a hotline iff all set levels
\* match: normalized regionName equals region, normalized province equals
\* province, and for a city key with '|' normalized city and normalized province
\* equal the key's two parts, for a key without '|' normalized city equals it.
C16_KeepsIffAllLevelsMatch ==
    \A i \in 1..Len(hotlines.hotlines) :
        hotlines.hotlines[i] \in Range(LocationPass(hotlines.hotlines, filterOptions))
            <=> AllSetLevelsMatch(hotlines.hotlines[i], filterOptions)

-----------------------------------------------------------------------------
(* C17 *)

\* The three conditions of the filter pass, one per level.
regionCondition(hotline, filter) ==
    filter.region # <<>> =>
        normalizeString(hotline.regionName) = normalizeString(filter.region)

provinceCondition(hotline, filter) ==
    filter.province # <<>> =>
        normalizeString(hotline.province) = normalizeString(filter.province)

cityCondition(hotline, filter) ==
    filter.city # <<>> =>
        LET locationFromFilter == extractLocationFromFilter(filter.city)
        IN  IF OrEmpty(locationFromFilter.province) # <<>>
            THEN /\ normalizeString(hotline.city)
                        = normalizeString(locationFromFilter.city)
                 /\ normalizeString(hotline.province)
                        = normalizeString(locationFromFilter.province.s)
            ELSE normalizeString(hotline.city)
                        = normalizeString(locationFromFilter.city)

RegionPass(list, filter) ==
    SelectSeq(list, LAMBDA hotline : regionCondition(hotline, filter))

ProvincePass(list, filter) ==
    SelectSeq(list, LAMBDA hotline : provinceCondition(hotline, filter))

CityPass(list, filter) ==
    SelectSeq(list, LAMBDA hotline : cityCondition(hotline, filter))

ThreePasses(list, filter) ==
    CityPass(ProvincePass(RegionPass(list, filter), filter), filter)

\* C17: for every dataset and location filter, the single filter pass keeps
\* exactly the hotlines that remain after a region pass, then a province pass,
\* then a city pass.
C17_OnePassIsThreePasses ==
    Range(LocationPass(hotlines.hotlines, filterOptions))
        = Range(ThreePasses(hotlines.hotlines, filterOptions))

\* C17: a filter with region and city set, a hotline that the region pass drops
\* although it meets the city condition, and one that only the city pass drops.
C17_Witness ==
    /\ filterOptions.region # <<>>
    /\ filterOptions.city # <<>>
    /\ \E i \in 1..Len(hotlines.hotlines) :
           /\ ~regionCondition(hotlines.hotlines[i], filterOptions)
           /\ cityCondition(hotlines.hotlines[i], filterOptions)
    /\ \E i \in 1..Len(hotlines.hotlines) :
           /\ regionCondition(hotlines.hotlines[i], filterOptions)
           /\ provinceCondition(hotlines.hotlines[i], filterOptions)
           /\ ~cityCondition(hotlines.hotlines[i], filterOptions)

-----------------------------------------------------------------------------
(* C18 *)

\* The hotline categories each category label of the page stands for, as claimed.
ClaimedCategories(label) ==
    CASE label = "Emergency Hotlines" -> {"police_hotlines", "fire_hotlines"}
      [] label = "Medical Hotlines" -> {"medical_hotlines"}
      [] label = "Government Hotlines" -> {"government_hotlines"}
      [] label = "Utility Hotlines" -> {"utility_hotlines"}
      [] OTHER -> Categories

\* C18: with 'All Hotlines' the output holds every hotline that passed the
\* location filter; with each other label exactly those of them whose category
\* the label stands for (police and fire, medical, government, utility); and
\* under 'Emergency Hotlines' every police hotline precedes every fire hotline.
C18_CategoryKeepsItsSet ==
    LET output == sortedSelectedHotlines
        located == LocationPass(hotlines.hotlines, filterOptions)
    IN  /\ Range(output)
               = {hotline \in Range(located) :
                      hotline.category \in ClaimedCategories(filterOptions.category)}
        /\ filterOptions.category = "All Hotlines" => Len(output) = Len(located)
        /\ Len(output) = Cardinality(Range(output))
        /\ filterOptions.category = "Emergency Hotlines" =>
               \A i, j \in 1..Len(output) :
                   /\ output[i].category = "police_hotlines"
                   /\ output[j].category = "fire_hotlines"
                   => i < j

\* C18: under 'Emergency Hotlines' the output holds a police and a fire hotline,
\* the fire one came first in the dataset, and a located hotline of another
\* category was removed.
C18_Witness ==
    LET output == sortedSelectedHotlines
        located == LocationPass(hotlines.hotlines, filterOptions)
    IN  /\ filterOptions.category = "Emergency Hotlines"
        /\ Len(output) = 2
        /\ Len(located) = 3
        /\ located[1].category = "fire_hotlines"
        /\ output[1].category = "police_hotlines"
        /\ output[2].category = "fire_hotlines"

-----------------------------------------------------------------------------
(* C19 *)

\* The category ranks as claimed.
ClaimedRank(category) ==
    CASE category = "police_hotlines" -> 0
      [] category = "medical_hotlines" -> 1
      [] category = "fire_hotlines" -> 2
      [] category = "government_hotlines" -> 3
      [] category = "utility_hotlines" -> 4

\* a may stand before b: lower rank, or equal rank and a name that is not
\* greater, letter case ignored.
InOrder(a, b) ==
    \/ ClaimedRank(a.category) < ClaimedRank(b.category)
    \/ /\ ClaimedRank(a.category) = ClaimedRank(b.category)
       /\ localeCompare(a.hotlineName, b.hotlineName) <= 0

Ordered(output) ==
    \A i, j \in 1..Len(output) : i < j => InOrder(output[i], output[j])

Position(output, hotline) == CHOOSE i \in 1..Len(output) : output[i] = hotline

\* The dataset with its hotlines rearranged by the permutation p of its indices.
Rearranged(list, p) == [i \in 1..Len(list) |-> list[p[i]]]

\* The hotlines a and b of the output stand in the same relative order in the
\* output of every rearrangement of the dataset.
SameOrderForEveryPermutation(a, b) ==
    \A p \in Permutations(1..Len(hotlines.hotlines)) :
        LET other == sortedHotlines(Rearranged(hotlines.hotlines, p), filterOptions)
        IN  Position(sortedSelectedHotlines, a) < Position(sortedSelectedHotlines, b)
                <=> Position(other, a) < Position(other, b)

\* C19: the output is ordered by category rank (police 0, medical 1,
\* fire 2, government 3, utility 4), then by case-insensitive hotlineName; and
\* two hotlines with distinct (category, hotlineName) pairs stand in the same
\* relative order for every permutation of the input dataset.
C19_OrderIndependentOfInput ==
    /\ Ordered(sortedSelectedHotlines)
    /\ \A a, b \in Range(sortedSelectedHotlines) :
           <<a.category, a.hotlineName>> # <<b.category, b.hotlineName>>
               => SameOrderForEveryPermutation(a, b)

\* Holds where C19 does not: the same with "distinct" read up to letter case,
\* i.e. for two hotlines whose categories differ or whose names are unequal
\* under the comparison.
OrderIndependentUpToCase ==
    /\ Ordered(sortedSelectedHotlines)
    /\ \A a, b \in Range(sortedSelectedHotlines) :
           \/ a.category # b.category
           \/ localeCompare(a.hotlineName, b.hotlineName) # 0
           => SameOrderForEveryPermutation(a, b)

-----------------------------------------------------------------------------
(* C20 *)

\* C20: two hotlines of the output with identical category and hotlineName stand
\* in the output in the relative order they have in the input dataset.
C20_SortIsStable ==
    \A a, b \in Range(sortedSelectedHotlines) :
        /\ a.category = b.category
        /\ a.hotlineName = b.hotlineName
        /\ Position(hotlines.hotlines, a) < Position(hotlines.hotlines, b)
        => Position(sortedSelectedHotlines, a) < Position(sortedSelectedHotlines, b)

\* C20: the output holds two different hotlines of one category and one name,
\* and a third hotline that the sort has moved in front of them.
C20_Witness ==
    /\ Len(sortedSelectedHotlines) = 3
    /\ sortedSelectedHotlines[2] # sortedSelectedHotlines[3]
    /\ sortedSelectedHotlines[2].category = sortedSelectedHotlines[3].category
    /\ sortedSelectedHotlines[2].hotlineName = sortedSelectedHotlines[3].hotlineName
    /\ sortedSelectedHotlines[1] = hotlines.hotlines[3]

-----------------------------------------------------------------------------
(* C21 *)

\* React runs an effect after the render that changed its dependency: once
\* metadata is set, the detect-location effect is not postponed forever.
FairSpec == Spec /\ WF_vars(DetectLocation)

\* A step of the resolver: it moves getLocation, or requests, reads or writes.
ResolverStep ==
    \/ pc' # pc
    \/ log' # log
    \/ localStorage' # localStorage
    \/ isDetectingLocation' # isDetectingLocation

\* C21: no resolver stage starts before metadata has loaded (the geolocation
\* request, the reverse-geocode call, the store read and every resolver write
\* happen in steps taken with metadata available), and each change of the
\* metadata identity is followed by the start of a resolver run.
C21_ResolverGatedOnMetadata ==
    /\ [][ResolverStep => metadata # NotLoaded]_vars
    /\ [][metadata' # metadata => pc' = "idle" /\ log' = InitialLog]_vars
    /\ (metadata # NotLoaded) ~> (pc # "idle")

\* C21: metadata is loaded and the run that followed has issued its geolocation
\* request, its reverse-geocode call, and read the store.
C21_Witness ==
    /\ metadata # NotLoaded
    /\ log.geoRequests = 1
    /\ log.fetchRequests = 1
    /\ log.storeReads = 1
    /\ pc = "done"

-----------------------------------------------------------------------------
(* C22 *)

\* Requests issued and not yet answered, counted from the history of the run.
GeoAnswered == IF log.geo \in GeolocationCodes \cup {"ok"} THEN 1 ELSE 0
GeoOutstanding == log.geoRequests - GeoAnswered

FetchAnswered == IF log.fetch # "none" THEN 1 ELSE 0
FetchOutstanding == log.fetchRequests - FetchAnswered

\* C22: within a resolver run the reverse-geocode request is issued only after
\* the geolocation request has completed successfully; at most one geolocation
\* request and at most one reverse-geocode request are outstanding, and never
\* both at once.
C22_StagesSequential ==
    /\ [](/\ GeoOutstanding \in {0, 1}
          /\ FetchOutstanding \in {0, 1}
          /\ GeoOutstanding + FetchOutstanding <= 1
          /\ log.geoRequests <= 1
          /\ log.fetchRequests <= 1
          /\ log.fetchRequests = 1 => log.geoRequests = 1 /\ log.geo = "ok")
    /\ [][log'.fetchRequests # log.fetchRequests =>
              /\ GeoOutstanding = 1
              /\ log'.geo = "ok"
              /\ log'.fetchRequests = log.fetchRequests + 1]_vars

\* C22: the geolocation request has succeeded and the reverse-geocode request
\* is outstanding.
C22_Witness ==
    /\ log.geo = "ok"
    /\ GeoOutstanding = 0
    /\ FetchOutstanding = 1

-----------------------------------------------------------------------------
(* C23 *)

\* The loading screen is what the component returns.
LoadingState ==
    hotlines = NotLoaded \/ metadata = NotLoaded \/ isDetectingLocation

\* fetchData has caught the failure of one of its two fetches.
FetchFailed == fetchPc = "failed"

\* C23: if the metadata fetch or the hotlines fetch fails, the application
\* stays in the loading state (fetchData never leaves its failure, so for ever),
\* no resolved location is computed and nothing is written to the store.
C23_FetchFailureProducesNothing ==
    FetchFailed =>
        /\ LoadingState
        /\ log.resolvedBy = "none"
        /\ LocationOf(filterOptions) = EmptyLocation
        /\ log.storeWrites = 0

-----------------------------------------------------------------------------
(* C24 *)

\* The key as claimed: each component lower-cased and trimmed on its own.
ClaimedKey(city, province) ==
    normalizeString(city) \o <<"|">> \o normalizeString(province)

\* The keys of the city list and of cityToLocationMap are the claimed keys of
\* the cities of the dataset.
ListAndMapKeysAreClaimed ==
    LET list == allCities
        map == cityToLocationMap
    IN  /\ \A n \in 1..Len(list) :
               list[n].key = ClaimedKey(list[n].city, list[n].province)
        /\ {map[n].key : n \in 1..Len(map)}
               = {ClaimedKey(CityAt(p), ProvinceAt(p)) : p \in CityPositions}

\* The key the hierarchy match resolved to is the claimed key of the first
\* matching city; the key of the dataset default that of the first city.
ResolvedKeyIsClaimed ==
    /\ log.resolvedBy = "match" =>
           filterOptions.city = ClaimedKey(CityAt(FirstMatch(log.city.s)),
                                           ProvinceAt(FirstMatch(log.city.s)))
    /\ log.resolvedBy = "default" /\ <<1, 1, 1>> \in CityPositions =>
           filterOptions.city = ClaimedKey(CityAt(<<1, 1, 1>>), ProvinceAt(<<1, 1, 1>>))

\* C24: every city key the engine builds (city list, cityToLocationMap,
\* hierarchy match, dataset default) equals normalize(city) + '|' +
\* normalize(province), whatever whitespace the two names begin or end with.
C24_KeysNormalizedByComponent ==
    metadata # NotLoaded => ListAndMapKeysAreClaimed /\ ResolvedKeyIsClaimed

\* The names of the dataset for which the two ways of building a key agree:
\* no city ends and no province begins with whitespace.
NoInnerWhitespace ==
    \A p \in CityPositions :
        /\ trimEnd(CityAt(p)) = CityAt(p)
        /\ trimStart(ProvinceAt(p)) = ProvinceAt(p)

-----------------------------------------------------------------------------
(* C25 *)

\* The step is a user action: it leaves the history of a handler.
UserStep == log'.action # "none"

\* C25: a user action (select or clear of a level, category change, dismiss) is
\* taken only past the loading screen, never while isDetectingLocation holds or
\* a dataset is missing; so it is taken with the resolver run ended and both
\* fetches done, no resolver step follows it, and every user write to
\* lastSavedLocation comes after the resolver's.
C25_UserActionsOnlyPastLoading ==
    [][UserStep =>
           /\ ~LoadingState
           /\ pc = "done" /\ pc' = "done"
           /\ fetchPc = "done" /\ fetchPc' = "done"
           /\ isDetectingLocation' = FALSE
      ]_vars

\* C25: a user action has written lastSavedLocation, after the run that ended.
C25_Witness ==
    /\ log.action \in LocationHandlers
    /\ log.storeWrites = 1
    /\ pc = "done"
    /\ ~LoadingState

-----------------------------------------------------------------------------
(* C26 *)

\* The step reads the store and finds a value under lastSavedLocation.
ReadsStoredValue ==
    /\ log'.storeReads = log.storeReads + 1
    /\ Truthy(log'.stored)

\* C26: when the resolver resolves from the persisted store it only reads: the
\* stored value stays as it is (a legacy bare string is not rewritten in the
\* structured form), nothing is written, and the filter's category stays.
C26_PersistedBranchOnlyReads ==
    [][ReadsStoredValue =>
           /\ log'.stored = localStorage
           /\ localStorage' = localStorage
           /\ log'.storeWrites = 0
           /\ filterOptions'.category = filterOptions.category
           /\ log'.resolvedBy \in {"persisted", "legacy", "none"}
      ]_vars

\* C26: a run has resolved from a legacy bare string, still stored as it was.
C26_Witness ==
    /\ log.resolvedBy = "legacy"
    /\ localStorage.kind = "raw"
    /\ localStorage = log.stored
    /\ filterOptions.city # <<>>
    /\ pc = "done"

-----------------------------------------------------------------------------
(* C27 *)

\* C27: handleCityChange called with a key that cityToLocationMap does not hold
\* changes neither region, province, city or category of the filter nor the
\* value stored under lastSavedLocation.
C27_AbsentKeyIsNoOp ==
    [][/\ log'.action = "handleCityChange"
       /\ ~MapHas(cityToLocationMap, log'.argument)
       => /\ filterOptions' = filterOptions
          /\ localStorage' = localStorage
          /\ log'.storeWrites = 0
      ]_vars

\* C27: handleCityChange has returned for an absent key, with a filter and a
\* stored value that name a location.
C27_Witness ==
    /\ log.action = "handleCityChange"
    /\ ~MapHas(cityToLocationMap, log.argument)
    /\ log.argument # <<>>
    /\ filterOptions.region # <<>>
    /\ filterOptions.city # <<>>
    /\ FullTriple(localStorage)
    /\ localStorage.city.s = filterOptions.city

-----------------------------------------------------------------------------
(* C28 *)

\* The five category labels of the page.
CategoryLabels ==
    {"All Hotlines", "Emergency Hotlines", "Medical Hotlines", "Government Hotlines",
     "Utility Hotlines"}

\* C28: in every reachable state the filter's category is one of the five
\* labels (never 'all_hotlines' or another value), so hotlineTypeMap has an
\* entry for it whenever the category filter looks it up, i.e. whenever it is
\* not 'All Hotlines'.
C28_CategoryIsALabel ==
    /\ filterOptions.category \in CategoryLabels
    /\ filterOptions.category # "All Hotlines" =>
           filterOptions.category \in DOMAIN hotlineTypeMap

\* C28: a category button has set a category that the category filter looks up.
C28_Witness ==
    /\ log.action = "category"
    /\ filterOptions.category = "Emergency Hotlines"
    /\ filterOptions.city # <<>>
    /\ PageRendered

====
